---- MODULE Spec2Model ----
(***************************************************************************)
(* A model of the batch image generator: the request scheduler of          *)
(* src/main.py (MainWindow and AsyncWorker) and the retry loop of          *)
(* src/services/api_client.py (generate_image_async).                      *)
(*                                                                         *)
(* Status strings of the source are written in English here:               *)
(*   '等待中' = "Waiting", '生成中' = "Generating", '下载中' = "Downloading", *)
(*   '成功' = "Succeeded", '失败' = "Failed".                                *)
(* The prefixes of error texts are kept as tags:                           *)
(*   "请求失败: " = tag "request", "下载失败: " = tag "download".            *)
(***************************************************************************)
EXTENDS Integers, Sequences, FiniteSets, TLC

\* ------------------------------------------------------------------ bounds

\* Largest number of rows of the prompt table.
MaxRows == 2

\* Largest number of workers created over one behaviour (all submissions).
MaxDispatch == 3

\* Largest value of thread_count the settings are given.
MaxThreads == 2

\* ------------------------------------------------------------------ values

Prompts == {"p", "q"}

Urls == {"http://h/x.png"}

\* The messages an exception of generate_image_async can carry.
ErrorMessages == {"HTTP 500"}

NoText == ""

VARIABLES
    prompt_table_data,            \* MainWindow.prompt_table_data: the rows
    prompt_numbers,               \* MainWindow.prompt_numbers: prompt -> number
    selected,                     \* rows whose checkbox is checked
    generate_button,              \* generate_button.isEnabled()
    regenerate_selected_button,   \* regenerate_selected_button.isEnabled()
    regenerate_all_button,        \* regenerate_all_button.isEnabled()
    thread_count,                 \* MainWindow.thread_count
    max_concurrent_tasks,         \* MainWindow.max_concurrent_tasks
    semaphore,                    \* MainWindow.semaphore (created lazily)
    async_tasks,                  \* the workers created and not yet done, oldest first
    downloads,                    \* the download_image_async tasks in flight
    saved_files,                  \* the file names present in save_path
    refresh_timers,               \* callbacks whose refresh and check timers are both pending
    check_timers,                 \* callbacks whose refresh has run and whose check is pending
    dispatched,                   \* number of workers created so far
    submitted,                    \* rows a worker was ever created for
    finished_calls,               \* calls of generation_finished since the last submission
    history_saves,                \* calls of save_history_record since the last submission
    \* one call of generate_image_async (the call of the worker being followed)
    retry_count,                  \* its parameter retry_count
    model_type,                   \* its parameter model_type
    attempt,                      \* its local variable attempt
    api_pc,                       \* "idle", "loop", "returned", "raised", "done"
    api_posts,                    \* calls of session.post so far
    api_sleeps,                   \* the delays slept so far, in milliseconds, with the attempt index
    api_errors,                   \* the exception of every failed attempt so far
    api_exc,                      \* the exception the call raised
    api_result,                   \* the value the call returned
    connector_closed,             \* the TCPConnector built before the loop is closed
    api_key,                      \* the api_key the call is made with
    \* one call of extract_image_names
    match_text,                   \* its argument prompt, a sequence of characters
    category_links,               \* the names of the reference images, each a sequence of characters
    ordered,                      \* the list it returned
    matched,                      \* its local list matched, each entry with the span start
    match_pc,                     \* "idle", "call", "done"
    \* the history directory and the calls of save_history_record
    history_dir,                  \* the files of app_path/history: file name -> record stored
    history_clock,                \* the wall clock, in seconds
    history_call,                 \* the last call: its arguments and the path it returned
    history_calls,                \* number of calls made
    \* one response handed to the parsing rules of generate_image_async
    response_data,                \* the JSON body of the response
    parse_model,                  \* the model_type of the call
    parse_result,                       \* what the rules returned or raised
    parse_pc                      \* "idle", "call", "done"

schedVars == <<prompt_table_data, prompt_numbers, selected, generate_button,
          regenerate_selected_button, regenerate_all_button, thread_count,
          max_concurrent_tasks, semaphore, async_tasks, downloads, saved_files,
          refresh_timers, check_timers, dispatched, submitted,
          finished_calls, history_saves>>

apiVars == <<retry_count, model_type, attempt, api_pc, api_posts, api_sleeps,
             api_errors, api_exc, api_result, connector_closed, api_key>>

matchVars == <<match_text, category_links, ordered, matched, match_pc>>

historyVars == <<history_dir, history_clock, history_call, history_calls>>

parseVars == <<response_data, parse_model, parse_result, parse_pc>>

auxVars == <<matchVars, historyVars, parseVars>>

vars == <<schedVars, apiVars, auxVars>>

\* ------------------------------------------------------------------ rows

NoError == [tag |-> "", text |-> ""]

NoFile == [number |-> 0, counter |-> 0]

\* A row as import_csv appends it: Waiting, no locator, no error text.
NewRow(number, prompt) ==
    [number |-> number, prompt |-> prompt, status |-> "Waiting",
     image_url |-> NoText, error_msg |-> NoError, actual_filename |-> NoFile]

Rows(table) == 1..Len(table)

\* `for data in self.prompt_table_data: if data['prompt'] == original_prompt: ... break`
\* The first row whose prompt equals original_prompt, 0 when there is none.
FirstMatch(table, original_prompt) ==
    IF \E r \in Rows(table) : table[r].prompt = original_prompt
    THEN CHOOSE r \in Rows(table) :
            /\ table[r].prompt = original_prompt
            /\ \A q \in 1..(r - 1) : table[q].prompt # original_prompt
    ELSE 0

\* The table after the matched row (if any) is replaced by row.
UpdateFirst(table, original_prompt, row) ==
    LET r == FirstMatch(table, original_prompt)
    IN  IF r = 0 THEN table ELSE [table EXCEPT ![r] = row]

MatchedRow(table, original_prompt) == table[FirstMatch(table, original_prompt)]

\* prompt_numbers as import_csv fills it: the number of the last row of a prompt.
ImportedNumbers(table) ==
    [p \in {table[r].prompt : r \in Rows(table)} |->
        LET last == CHOOSE r \in Rows(table) :
                        /\ table[r].prompt = p
                        /\ \A q \in (r + 1)..Len(table) : table[q].prompt # p
        IN  table[last].number]

\* self.prompt_numbers.get(original_prompt, str(i + 1))
NumberOf(numbers, original_prompt, i) ==
    IF original_prompt \in DOMAIN numbers THEN numbers[original_prompt] ELSE i + 1

\* The data changes of the callbacks, as functions of the table.
handle_progress_rows(table, original_prompt) ==
    LET r == FirstMatch(table, original_prompt)
    IN  IF r = 0 THEN table
        ELSE [table EXCEPT ![r].status = "Generating"]

handle_success_rows(table, original_prompt, image_url) ==
    LET r == FirstMatch(table, original_prompt)
    IN  IF r = 0 THEN table
        ELSE [table EXCEPT ![r].status = "Downloading",
                           ![r].image_url = image_url,
                           ![r].error_msg = NoError]

\* An error handler that files every failure as a download failure.
handle_error_rows_mutant(table, original_prompt, error) ==
    LET r == FirstMatch(table, original_prompt)
    IN  IF r = 0 THEN table
        ELSE [table EXCEPT ![r].status = "Failed",
                           ![r].error_msg = [tag |-> "download", text |-> error.text]]

handle_error_rows(table, original_prompt, error) ==
    LET r == FirstMatch(table, original_prompt)
    IN  IF r = 0 THEN table
        ELSE [table EXCEPT ![r].status = "Failed",
                           ![r].image_url = NoText,
                           ![r].error_msg = error]

mark_download_complete_rows(table, original_prompt, actual_filename) ==
    LET r == FirstMatch(table, original_prompt)
    IN  IF r = 0 THEN table
        ELSE [table EXCEPT ![r].status = "Succeeded",
                           ![r].actual_filename = actual_filename]

\* A failure handler that puts the row back in the queue.
mark_download_failed_rows_mutant(table, original_prompt, error_msg) ==
    LET r == FirstMatch(table, original_prompt)
    IN  IF r = 0 THEN table
        ELSE [table EXCEPT ![r].status = "Waiting"]

mark_download_failed_rows(table, original_prompt, error_msg) ==
    LET r == FirstMatch(table, original_prompt)
    IN  IF r = 0 THEN table
        ELSE [table EXCEPT ![r].status = "Failed",
                           ![r].error_msg = [tag |-> "download", text |-> error_msg]]

\* The reset of start_regenerate_selected and start_regenerate_all.
ResetRow(row) ==
    [row EXCEPT !.status = "Waiting", !.image_url = NoText, !.error_msg = NoError]

\* A probe that always answers number.png.
get_unique_filename_mutant(number, files) == [number |-> number, counter |-> 1]

\* get_unique_filename: number.png, else number-2.png, number-3.png, ...
\* counter 1 stands for the bare name number.png.
get_unique_filename(number, files) ==
    LET free(k) == [number |-> number, counter |-> k] \notin files
        k == CHOOSE k \in 1..(Cardinality(files) + 1) :
                /\ free(k)
                /\ \A j \in 1..(k - 1) : ~free(j)
    IN  [number |-> number, counter |-> k]

\* ------------------------------------------------------------------ gate

NoSemaphore == [created |-> FALSE, limit |-> 0, value |-> 0]

\* `if not self.semaphore: self.semaphore = asyncio.Semaphore(self.max_concurrent_tasks)`
EnsureSemaphore(sem, limit) ==
    IF sem.created THEN sem ELSE [created |-> TRUE, limit |-> limit, value |-> limit]

\* A worker as _execute_async_worker builds it: the closure keeps idx and
\* original_prompt, the AsyncWorker keeps number.  pc is "queued" while the
\* task waits in `async with self.semaphore` and "running" once inside.
\* The code does not keep the last two fields: row is the table row the worker
\* was created for, skipped the rows its submission passed over.
NewWorker(original_prompt, number, idx, row, skipped) ==
    [original_prompt |-> original_prompt, number |-> number, idx |-> idx,
     row |-> row, skipped |-> skipped, pc |-> "queued"]

RemoveAt(seq, i) == SubSeq(seq, 1, i - 1) \o SubSeq(seq, i + 1, Len(seq))

\* A gate that lets every task in.
GateOpen_mutant(sem) == TRUE

\* `async with self.semaphore`: a task enters only while a permit is free.
GateOpen(sem) == sem.value > 0

\* Entering `async with self.semaphore` takes a permit.
Acquire(sem) == [sem EXCEPT !.value = @ - 1]

\* A gate that keeps the permit of a worker that left.
Release_mutant(sem) == sem

\* Leaving `async with self.semaphore`, by return or by exception, gives the
\* permit back.
Release(sem) == [sem EXCEPT !.value = @ + 1]

\* Workers inside the gate.
Running == {i \in 1..Len(async_tasks) : async_tasks[i].pc = "running"}

\* asyncio.Semaphore wakes its waiters in the order they arrived.
FirstQueued ==
    IF \E i \in 1..Len(async_tasks) : async_tasks[i].pc = "queued"
    THEN CHOOSE i \in 1..Len(async_tasks) :
            /\ async_tasks[i].pc = "queued"
            /\ \A j \in 1..(i - 1) : async_tasks[j].pc # "queued"
    ELSE 0


\* The elements of a set of rows in ascending order (`sorted(selected_rows)`).
RECURSIVE Sorted(_)
Sorted(S) ==
    IF S = {} THEN <<>>
    ELSE LET m == CHOOSE x \in S : \A y \in S : x <= y
         IN  <<m>> \o Sorted(S \ {m})

Active(status) == status \in {"Waiting", "Generating", "Downloading", "Retrying"}

Terminal(status) == status \in {"Succeeded", "Failed"}

\* ------------------------------------------------------------------ initial state

\* The tables import_csv can build: 1..MaxRows rows numbered by position,
\* every row Waiting; two rows may carry the same prompt.  The first prompt
\* is fixed, the names of the prompts being interchangeable.
ImportedTables ==
    {t \in UNION {[1..n -> Prompts] : n \in 1..MaxRows} : t[1] = "p"}

TableOf(prompts) == [r \in 1..Len(prompts) |-> NewRow(r, prompts[r])]

\* After MainWindow.__init__, load_config and one import: the table is shown
\* (refresh_prompt_table has left no checkbox checked), no worker exists.
InitTable(tables) ==
    /\ \E prompts \in tables :
          /\ prompt_table_data = TableOf(prompts)
          /\ prompt_numbers = ImportedNumbers(TableOf(prompts))
    /\ selected = {}
    /\ generate_button = TRUE
    /\ regenerate_selected_button = FALSE
    /\ regenerate_all_button = TRUE
    /\ thread_count \in 1..MaxThreads
    /\ max_concurrent_tasks = thread_count
    /\ semaphore = NoSemaphore
    /\ async_tasks = <<>>
    /\ downloads = <<>>
    /\ saved_files = {}
    /\ refresh_timers = 0
    /\ check_timers = 0
    /\ dispatched = 0
    /\ submitted = {}
    /\ finished_calls = 0
    /\ history_saves = 0

\* ------------------------------------------------------------------ user operations

\* refresh_prompt_table rebuilds every checkbox unchecked and then calls
\* update_selection_buttons, which disables "regenerate selected".
refresh_prompt_table ==
    /\ selected' = {}
    /\ regenerate_selected_button' = FALSE

\* run_async_worker for each new worker, in order; _execute_async_worker
\* creates the semaphore on first use.
run_async_worker(workers) ==
    /\ async_tasks' = async_tasks \o workers
    /\ semaphore' = EnsureSemaphore(semaphore, max_concurrent_tasks)
    /\ dispatched' = dispatched + Len(workers)
    /\ submitted' = submitted \cup {workers[i].row : i \in 1..Len(workers)}
    /\ finished_calls' = 0
    /\ history_saves' = 0

\* SettingsDialog.accept_settings followed by refresh_ui_after_settings.
accept_settings(n) ==
    /\ thread_count' = n
    /\ max_concurrent_tasks' = n
    /\ UNCHANGED <<prompt_table_data, prompt_numbers, selected, generate_button,
                   regenerate_selected_button, regenerate_all_button, semaphore,
                   async_tasks, downloads, saved_files, refresh_timers, check_timers,
                   dispatched, submitted, finished_calls, history_saves>>

\* A click on the checkbox of row r: on_row_checkbox_changed, update_selection_buttons.
on_row_checkbox_changed(r) ==
    /\ r \in Rows(prompt_table_data)
    /\ selected' = IF r \in selected THEN selected \ {r} ELSE selected \cup {r}
    /\ regenerate_selected_button' = (selected' # {})
    /\ UNCHANGED <<prompt_table_data, prompt_numbers, generate_button,
                   regenerate_all_button, thread_count, max_concurrent_tasks, semaphore,
                   async_tasks, downloads, saved_files, refresh_timers, check_timers,
                   dispatched, submitted, finished_calls, history_saves>>

\* The index a row has after the rows of `rows` are deleted, 0 for a
\* deleted row.
NewIndex(r, rows) ==
    IF r \in rows \/ r <= 0 THEN 0 ELSE r - Cardinality({q \in rows : q < r})

\* `del self.prompt_table_data[row]` for every row of `rows`.
DeleteRows(table, rows) ==
    [k \in 1..(Len(table) - Cardinality(rows \cap Rows(table))) |->
        table[CHOOSE r \in Rows(table) \ rows : NewIndex(r, rows) = k]]

\* The deletion leaves the workers alone: nothing is cancelled and no
\* worker is told.  The field row of a worker, which the program does not
\* keep, follows the row the worker was created for and is 0 once that row
\* is deleted; the set submitted follows likewise.
WorkersAfterDelete(rows) ==
    [i \in 1..Len(async_tasks) |->
        [async_tasks[i] EXCEPT !.row = NewIndex(@, rows)]]

\* "Delete selected", confirmed: the checked rows are removed from the table.
delete_selected_prompts ==
    /\ selected # {}
    /\ prompt_table_data' = DeleteRows(prompt_table_data, selected)
    /\ refresh_prompt_table
    /\ async_tasks' = WorkersAfterDelete(selected)
    /\ submitted' = {NewIndex(r, selected) : r \in submitted} \ {0}
    /\ UNCHANGED <<prompt_numbers, generate_button, regenerate_all_button, thread_count,
                   max_concurrent_tasks, semaphore, downloads, saved_files,
                   refresh_timers, check_timers, dispatched, finished_calls,
                   history_saves>>

\* "Clear", confirmed: the table and the numbers are emptied.
clear_prompts ==
    /\ prompt_table_data # <<>>
    /\ prompt_table_data' = <<>>
    /\ prompt_numbers' = <<>>
    /\ refresh_prompt_table
    /\ async_tasks' = WorkersAfterDelete(Rows(prompt_table_data))
    /\ submitted' = {}
    /\ UNCHANGED <<generate_button, regenerate_all_button, thread_count,
                   max_concurrent_tasks, semaphore, downloads, saved_files,
                   refresh_timers, check_timers, dispatched, finished_calls,
                   history_saves>>

\* A filter that also takes the Failed rows.
WaitingRows_mutant(table) == {r \in Rows(table) : table[r].status \in {"Waiting", "Failed"}}

\* `if data.get('status', '等待中') == '等待中'`: the rows start_generation takes.
WaitingRows(table) == {r \in Rows(table) : table[r].status = "Waiting"}

\* "Generate (only new)": a worker for every Waiting row, no row is changed,
\* no button is disabled.  With no Waiting row the handler returns early.
start_generation ==
    LET waiting == WaitingRows(prompt_table_data)
        order == Sorted(waiting)
        workers == [i \in 1..Len(order) |->
                      NewWorker(prompt_table_data[order[i]].prompt,
                                NumberOf(prompt_numbers, prompt_table_data[order[i]].prompt, i - 1),
                                i - 1, order[i], Rows(prompt_table_data) \ waiting)]
    IN  /\ generate_button
        /\ prompt_table_data # <<>>
        /\ waiting # {}
        /\ dispatched + Len(order) <= MaxDispatch
        /\ refresh_prompt_table
        /\ run_async_worker(workers)
        /\ UNCHANGED <<prompt_table_data, prompt_numbers, generate_button,
                       regenerate_all_button, thread_count, max_concurrent_tasks,
                       downloads, saved_files, refresh_timers, check_timers>>

\* "Regenerate selected": the checked rows are reset to Waiting and a worker
\* is created for each; the button is disabled.
start_regenerate_selected ==
    LET order == Sorted(selected)
        workers == [i \in 1..Len(order) |->
                      NewWorker(prompt_table_data[order[i]].prompt,
                                NumberOf(prompt_numbers, prompt_table_data[order[i]].prompt,
                                         order[i] - 1),
                                order[i] - 1, order[i], {})]
    IN  /\ regenerate_selected_button
        /\ selected # {}
        /\ dispatched + Len(order) <= MaxDispatch
        /\ prompt_table_data' =
              [r \in Rows(prompt_table_data) |->
                  IF r \in selected THEN ResetRow(prompt_table_data[r])
                  ELSE prompt_table_data[r]]
        /\ refresh_prompt_table
        /\ run_async_worker(workers)
        /\ UNCHANGED <<prompt_numbers, generate_button, regenerate_all_button,
                       thread_count, max_concurrent_tasks, downloads, saved_files,
                       refresh_timers, check_timers>>

\* "Regenerate all": every row is reset to Waiting and a worker is created
\* for each; "generate" and "regenerate all" are disabled.
start_regenerate_all ==
    LET workers == [i \in Rows(prompt_table_data) |->
                      NewWorker(prompt_table_data[i].prompt,
                                NumberOf(prompt_numbers, prompt_table_data[i].prompt, i - 1),
                                i - 1, i, {})]
    IN  /\ regenerate_all_button
        /\ prompt_table_data # <<>>
        /\ dispatched + Len(prompt_table_data) <= MaxDispatch
        /\ prompt_table_data' =
              [r \in Rows(prompt_table_data) |-> ResetRow(prompt_table_data[r])]
        /\ refresh_prompt_table
        /\ generate_button' = FALSE
        /\ regenerate_all_button' = FALSE
        /\ run_async_worker(workers)
        /\ UNCHANGED <<prompt_numbers, thread_count, max_concurrent_tasks, downloads,
                       saved_files, refresh_timers, check_timers>>


\* ------------------------------------------------------------------ workers

\* _run_with_semaphore enters the gate and AsyncWorker.run emits progress:
\* handle_progress marks the matched row Generating and schedules a refresh
\* at 0 ms, which is taken to run at once (it starts no completion check).
run_begin ==
    LET i == FirstQueued
    IN  /\ i # 0
        /\ GateOpen(semaphore)
        /\ semaphore' = Acquire(semaphore)
        /\ async_tasks' = [async_tasks EXCEPT ![i].pc = "running"]
        /\ prompt_table_data' =
              handle_progress_rows(prompt_table_data, async_tasks[i].original_prompt)
        /\ refresh_prompt_table
        /\ UNCHANGED <<prompt_numbers, generate_button, regenerate_all_button,
                       thread_count, max_concurrent_tasks, downloads, saved_files,
                       refresh_timers, check_timers, dispatched, submitted,
                       finished_calls, history_saves>>

\* A download_image_async task as handle_success creates it.
NewDownload(image_url, number, original_prompt) ==
    [image_url |-> image_url, number |-> number, original_prompt |-> original_prompt,
     pc |-> "created", filename |-> NoFile, error_msg |-> NoText]

\* generate_image_async returned image_url for worker i: finished is emitted,
\* handle_success marks the matched row Downloading and creates the download
\* task; the worker leaves the gate.
run_finished(i, image_url) ==
    LET w == async_tasks[i]
        r == FirstMatch(prompt_table_data, w.original_prompt)
        actual_number == IF r = 0 THEN w.number ELSE prompt_table_data[r].number
    IN  /\ i \in Running
        /\ prompt_table_data' =
              handle_success_rows(prompt_table_data, w.original_prompt, image_url)
        /\ downloads' = Append(downloads, NewDownload(image_url, actual_number, w.original_prompt))
        /\ refresh_timers' = refresh_timers + 1
        /\ semaphore' = Release(semaphore)
        /\ async_tasks' = RemoveAt(async_tasks, i)
        /\ UNCHANGED <<prompt_numbers, selected, generate_button,
                       regenerate_selected_button, regenerate_all_button, thread_count,
                       max_concurrent_tasks, saved_files, check_timers, dispatched,
                       submitted, finished_calls, history_saves>>

\* generate_image_async raised for worker i: error is emitted with the text
\* "请求失败: {e}", handle_error marks the matched row Failed; the worker
\* leaves the gate.
run_error(i, message) ==
    LET w == async_tasks[i]
    IN  /\ i \in Running
        /\ prompt_table_data' =
              handle_error_rows(prompt_table_data, w.original_prompt,
                                [tag |-> "request", text |-> message])
        /\ refresh_timers' = refresh_timers + 1
        /\ semaphore' = Release(semaphore)
        /\ async_tasks' = RemoveAt(async_tasks, i)
        /\ UNCHANGED <<prompt_numbers, selected, generate_button,
                       regenerate_selected_button, regenerate_all_button, thread_count,
                       max_concurrent_tasks, downloads, saved_files, check_timers,
                       dispatched, submitted, finished_calls, history_saves>>

\* ------------------------------------------------------------------ downloads

\* download_image_async up to its first await: the file name is probed.
download_probe(d) ==
    /\ d \in 1..Len(downloads)
    /\ downloads[d].pc = "created"
    /\ downloads' = [downloads EXCEPT
                        ![d].pc = "fetching",
                        ![d].filename = get_unique_filename(downloads[d].number, saved_files)]
    /\ UNCHANGED <<prompt_table_data, prompt_numbers, selected, generate_button,
                   regenerate_selected_button, regenerate_all_button, thread_count,
                   max_concurrent_tasks, semaphore, async_tasks, saved_files,
                   refresh_timers, check_timers, dispatched, submitted, finished_calls,
                   history_saves>>

\* The artifact is written and mark_download_complete is called directly.
download_written(d) ==
    /\ d \in 1..Len(downloads)
    /\ downloads[d].pc = "fetching"
    /\ saved_files' = saved_files \cup {downloads[d].filename}
    /\ prompt_table_data' =
          mark_download_complete_rows(prompt_table_data, downloads[d].original_prompt,
                                      downloads[d].filename)
    /\ refresh_timers' = refresh_timers + 1
    /\ downloads' = RemoveAt(downloads, d)
    /\ UNCHANGED <<prompt_numbers, selected, generate_button,
                   regenerate_selected_button, regenerate_all_button, thread_count,
                   max_concurrent_tasks, semaphore, async_tasks, check_timers,
                   dispatched, submitted, finished_calls, history_saves>>

\* The fetch or the write failed (HTTP status, network error, timeout):
\* download_image_async schedules mark_download_failed with a timer and ends.
download_failed(d, message) ==
    /\ d \in 1..Len(downloads)
    /\ downloads[d].pc = "fetching"
    /\ downloads' = [downloads EXCEPT ![d].pc = "failed", ![d].error_msg = message]
    /\ UNCHANGED <<prompt_table_data, prompt_numbers, selected, generate_button,
                   regenerate_selected_button, regenerate_all_button, thread_count,
                   max_concurrent_tasks, semaphore, async_tasks, saved_files,
                   refresh_timers, check_timers, dispatched, submitted, finished_calls,
                   history_saves>>

\* The timer of a failed download fires: mark_download_failed.
mark_download_failed(d) ==
    /\ d \in 1..Len(downloads)
    /\ downloads[d].pc = "failed"
    /\ prompt_table_data' =
          mark_download_failed_rows(prompt_table_data, downloads[d].original_prompt,
                                    downloads[d].error_msg)
    /\ refresh_timers' = refresh_timers + 1
    /\ downloads' = RemoveAt(downloads, d)
    /\ UNCHANGED <<prompt_numbers, selected, generate_button,
                   regenerate_selected_button, regenerate_all_button, thread_count,
                   max_concurrent_tasks, semaphore, async_tasks, saved_files,
                   check_timers, dispatched, submitted, finished_calls, history_saves>>

\* ------------------------------------------------------------------ timers

\* The success, error and download callbacks schedule refresh_prompt_table
\* at 0 ms and check_generation_completion at 20 ms.  Timers fire in the
\* order of their deadlines: refreshes in the order they were scheduled,
\* checks likewise, and the check of a callback after the refresh of the same
\* callback.  The callbacks run on the event-loop thread and the timers on
\* the GUI thread, so a later callback may run between the two.
refresh_timer_fires ==
    /\ refresh_timers > 0
    /\ refresh_prompt_table
    /\ refresh_timers' = refresh_timers - 1
    /\ check_timers' = check_timers + 1
    /\ UNCHANGED <<prompt_table_data, prompt_numbers, generate_button,
                   regenerate_all_button, thread_count, max_concurrent_tasks, semaphore,
                   async_tasks, downloads, saved_files, dispatched, submitted,
                   finished_calls, history_saves>>

\* check_generation_completion: with no active row and some button disabled
\* it calls generation_finished, which enables the three buttons and calls
\* auto_save_history (save_history_record when the table is not empty).
NoActiveTask(table) == \A r \in Rows(table) : ~Active(table[r].status)

SomeButtonDisabled ==
    \/ ~generate_button
    \/ ~regenerate_selected_button
    \/ ~regenerate_all_button

check_generation_completion ==
    /\ check_timers > 0
    /\ check_timers' = check_timers - 1
    /\ IF NoActiveTask(prompt_table_data) /\ SomeButtonDisabled
       THEN /\ generate_button' = TRUE
            /\ regenerate_selected_button' = TRUE
            /\ regenerate_all_button' = TRUE
            /\ finished_calls' = finished_calls + 1
            /\ history_saves' = IF prompt_table_data # <<>> THEN history_saves + 1
                                ELSE history_saves
       ELSE UNCHANGED <<generate_button, regenerate_selected_button,
                        regenerate_all_button, finished_calls, history_saves>>
    /\ UNCHANGED <<prompt_table_data, prompt_numbers, selected, thread_count,
                   max_concurrent_tasks, semaphore, async_tasks, downloads, saved_files,
                   refresh_timers, dispatched, submitted>>

\* ------------------------------------------------------------------ extract_image_names

\* Characters are one-character strings.  Letters stand for the characters
\* of the class [A-Za-z0-9一-龥] of the source ("y" = 一, "z" = 只, "x" = 小,
\* "m" = 猫), " " is the ASCII space and "_" stands for the full-width
\* space U+3000.
WordChars == {"y", "z", "x", "m"}

FullWidthSpace == "_"

\* "<" and ">" stand for the full-width parentheses U+FF08 and U+FF09.
FullWidthLeft == "<"

FullWidthRight == ">"

\* "o" stands for an ideograph outside the range 一-龥, such as 〇 (U+3007)
\* or 㐀 (U+3400): the class of the source does not hold it.
OtherIdeographs == {"o"}

Chars == WordChars \cup OtherIdeographs \cup {" ", FullWidthSpace}

\* Longest prompt given to extract_image_names.
MaxText == 4

Texts == UNION {[1..n -> Chars] : n \in 0..MaxText}

\* The names the reference library can hold (stripped, not empty).
NamePool == { <<"m">>, <<"x">>, <<"x", "m">>, <<"x", " ", "m">> }

\* `text.replace('　', ' ')`, `.replace('(', '（').replace(')', '）')`
Normalize(text) ==
    [i \in 1..Len(text) |->
        IF text[i] = FullWidthSpace THEN " "
        ELSE IF text[i] = "(" THEN FullWidthLeft
        ELSE IF text[i] = ")" THEN FullWidthRight
        ELSE text[i]]

\* A pattern that matches the name anywhere.
MatchesAt_mutant(text, n, s) ==
    /\ s >= 1
    /\ s + Len(n) - 1 <= Len(text)
    /\ SubSeq(text, s, s + Len(n) - 1) = n

\* A pattern that tests the character before the name only.
MatchesAt_nolookahead(text, n, s) ==
    /\ s >= 1
    /\ s + Len(n) - 1 <= Len(text)
    /\ SubSeq(text, s, s + Len(n) - 1) = n
    /\ (s = 1 \/ text[s - 1] \notin WordChars)

\* compile_pattern: the name, not preceded and not followed by a character
\* of [A-Za-z0-9一-龥].
MatchesAt(text, n, s) ==
    /\ s >= 1
    /\ s + Len(n) - 1 <= Len(text)
    /\ SubSeq(text, s, s + Len(n) - 1) = n
    /\ (s = 1 \/ text[s - 1] \notin WordChars)
    /\ (s + Len(n) > Len(text) \/ text[s + Len(n)] \notin WordChars)

\* pat.finditer(text): the starts of the matches, left to right, the search
\* resuming at the end of each match.
RECURSIVE finditer(_, _, _)
finditer(text, n, from) ==
    IF from + Len(n) - 1 > Len(text) THEN <<>>
    ELSE IF MatchesAt(text, n, from) THEN <<from>> \o finditer(text, n, from + Len(n))
    ELSE finditer(text, n, from + 1)

\* A loop that records every match and looks at no mask.
RECURSIVE MaskMatches_mutant(_, _, _, _)
MaskMatches_mutant(n, starts, k, st) ==
    IF k > Len(starts) THEN st
    ELSE MaskMatches_mutant(n, starts, k + 1,
            [matched |-> Append(st.matched, [name |-> n, start |-> starts[k]]),
             masked |-> st.masked \cup (starts[k]..(starts[k] + Len(n) - 1))])

\* The body of `for m in pat.finditer(text)` for the matches of one name:
\* a match over a masked character is skipped, another is recorded and masked.
RECURSIVE MaskMatches(_, _, _, _)
MaskMatches(n, starts, k, st) ==
    IF k > Len(starts) THEN st
    ELSE LET span == starts[k]..(starts[k] + Len(n) - 1)
         IN  IF span \cap st.masked # {}
             THEN MaskMatches(n, starts, k + 1, st)
             ELSE MaskMatches(n, starts, k + 1,
                     [matched |-> Append(st.matched, [name |-> n, start |-> starts[k]]),
                      masked |-> st.masked \cup span])

\* `for n in names`: the names one after the other.
RECURSIVE MatchNames(_, _, _, _)
MatchNames(text, names, j, st) ==
    IF j > Len(names) THEN st
    ELSE MatchNames(text, names, j + 1,
                    MaskMatches(names[j], finditer(text, names[j], 1), 1, st))

\* The last loop: the first entry of every name, in the order of matched.
RECURSIVE Dedup(_)
Dedup(seq) ==
    IF seq = <<>> THEN <<>>
    ELSE LET init == Dedup(SubSeq(seq, 1, Len(seq) - 1))
             last == seq[Len(seq)]
         IN  IF \E k \in 1..Len(init) : init[k] = last THEN init
             ELSE Append(init, last)

\* `sorted(set(names), key=len, reverse=True)`: the names by descending
\* length; names of one length come in the iteration order of the set,
\* which is any order.
SortedByLength(S) ==
    {q \in [1..Cardinality(S) -> S] :
        /\ \A a, b \in 1..Cardinality(S) : a # b => q[a] # q[b]
        /\ \A a, b \in 1..Cardinality(S) : a < b => Len(q[a]) >= Len(q[b])}

\* extract_image_names, names being the sorted list.
MatchedOf(prompt_text, names) ==
    MatchNames(Normalize(prompt_text), names, 1, [matched |-> <<>>, masked |-> {}]).matched

NamesOf(entries) == [k \in 1..Len(entries) |-> entries[k].name]

extract_image_names ==
    /\ match_pc = "call"
    /\ \E names \in SortedByLength(category_links) :
          /\ matched' = MatchedOf(match_text, names)
          /\ ordered' = Dedup(NamesOf(matched'))
    /\ match_pc' = "done"
    /\ UNCHANGED <<match_text, category_links>>

MatchIdle ==
    /\ match_text = <<>>
    /\ category_links = {}
    /\ ordered = <<>>
    /\ matched = <<>>
    /\ match_pc = "idle"



\* ------------------------------------------------------------------ save_history_record

\* Largest number of calls of save_history_record in one behaviour.
MaxHistoryCalls == 2

\* Largest value of the clock.
MaxClock == 2

\* A file name is a prefix and a stem; ".json" is always its ending once
\* the file is written.  Stems are numbers: a timestamp, or 0 for a text the
\* user typed.
FileName(prefix, stem) == [prefix |-> prefix, stem |-> stem]

NoPath == FileName("", 0)

\* The argument filename: None, or a name with or without the ending ".json".
NoName == [given |-> FALSE, prefix |-> "", stem |-> 0, json |-> FALSE]

Name(prefix, stem, json) == [given |-> TRUE, prefix |-> prefix, stem |-> stem, json |-> json]

\* The part of the configuration a record keeps (lines 28-36); of its seven
\* keys the model varies model_type and thread_count.
Configs ==
    { [model_type |-> "sora_image", thread_count |-> 1],
      [model_type |-> "nano-banana", thread_count |-> 1] }

NoConfig == [model_type |-> "", thread_count |-> 0]

\* A task as the table holds it when it is saved.
HistoryTask(task_prompt, status) ==
    [prompt |-> task_prompt, status |-> status,
     image_url |-> IF status = "Succeeded" THEN "http://h/x.png" ELSE NoText]

\* The tables saved: one or two tasks, the first Succeeded, Failed or
\* still Waiting.
PromptData ==
    UNION { { <<HistoryTask("p", st)>>,
              <<HistoryTask("p", st), HistoryTask("q", "Succeeded")>>,
              <<HistoryTask("q", st), HistoryTask("p", "Succeeded")>> }
            : st \in {"Succeeded", "Failed", "Waiting"} }

\* The names the callers pass at time now: none, auto_save_<timestamp>
\* (auto_save_history), a text typed in the save dialog, with or without
\* the ending, which may begin with "sora_history_".
FilenameChoices(now) ==
    { NoName,
      Name("auto_save_", now, FALSE),
      Name("session_", 0, FALSE),
      Name("session_", 0, TRUE),
      Name("sora_history_", 0, FALSE) }

\* A count that takes every task.
CountStatus_mutant(prompt_data, status) == Len(prompt_data)

CountStatus(prompt_data, status) ==
    Cardinality({k \in 1..Len(prompt_data) : prompt_data[k].status = status})

\* history_record (lines 22-38).
HistoryRecord(prompt_data, config_data, now) ==
    [created_time |-> now,
     total_prompts |-> Len(prompt_data),
     success_count |-> CountStatus(prompt_data, "Succeeded"),
     failed_count |-> CountStatus(prompt_data, "Failed"),
     config |-> config_data,
     prompts |-> prompt_data]

\* content_hash: the MD5 of the JSON text of the configuration and the
\* prompt texts in order.  The JSON text with sorted keys is one-to-one on
\* these values and MD5 is taken to be free of collisions, so the hash is
\* modelled by the value hashed.
ContentHash(config, prompts) ==
    [config |-> config, prompts |-> [k \in 1..Len(prompts) |-> prompts[k].prompt]]

\* glob.glob(history_path / "sora_history_*.json")
Globbed(dir) == {f \in DOMAIN dir : f.prefix = "sora_history_"}

\* The files the scan can stop at: those whose hash equals content_hash.
\* glob returns the files in no particular order.
Duplicates(dir, content_hash) ==
    {f \in Globbed(dir) : ContentHash(dir[f].config, dir[f].prompts) = content_hash}

\* Lines 85-91: the name of the new file.
NewFileName(filename, now) ==
    IF filename.given THEN FileName(filename.prefix, filename.stem)
    ELSE FileName("sora_history_", now)

save_history_record(prompt_data, config_data, filename) ==
    LET history_record == HistoryRecord(prompt_data, config_data, history_clock)
        content_hash == ContentHash(history_record.config, prompt_data)
        duplicates == Duplicates(history_dir, content_hash)
    IN  /\ history_calls < MaxHistoryCalls
        /\ history_calls' = history_calls + 1
        /\ IF duplicates # {}
           THEN \E duplicate_file \in duplicates :
                   /\ history_dir' =
                         [history_dir EXCEPT
                             ![duplicate_file].created_time = history_record.created_time,
                             ![duplicate_file].total_prompts = history_record.total_prompts,
                             ![duplicate_file].success_count = history_record.success_count,
                             ![duplicate_file].failed_count = history_record.failed_count,
                             ![duplicate_file].prompts = prompt_data]
                   /\ history_call' = [prompt_data |-> prompt_data, config |-> config_data,
                                       filename |-> filename, returned |-> duplicate_file]
           ELSE LET file_path == NewFileName(filename, history_clock)
                IN  /\ history_dir' = (file_path :> history_record) @@ history_dir
                    /\ history_call' = [prompt_data |-> prompt_data, config |-> config_data,
                                        filename |-> filename, returned |-> file_path]
        /\ UNCHANGED history_clock

\* A second passes.
clock_ticks ==
    /\ history_clock < MaxClock
    /\ history_clock' = history_clock + 1
    /\ UNCHANGED <<history_dir, history_call, history_calls>>

NoCall == [prompt_data |-> <<>>, config |-> NoConfig, filename |-> NoName, returned |-> NoPath]

\* An empty history directory, no call made.
HistoryIdle ==
    /\ history_dir = <<>>
    /\ history_clock = 1
    /\ history_call = NoCall
    /\ history_calls = 0

\* ------------------------------------------------------------------ generate_image_async

\* retry_spin.setRange(0, 5): the largest retry count the settings dialog gives.
RetrySpinMax == 5

\* Largest retry count a call is given.
MaxRetry == 6

\* The values of retry_count: those of the dialog, and values outside its
\* range, which load_config and load_history_data accept without a check.
RetryCounts == {-1} \cup (0..MaxRetry)

ModelTypes == {"sora_image", "nano-banana"}

NoException == [type |-> "", message |-> ""]

\* Exceptions of one attempt.  The messages of the source are tagged:
\*   "no image data" = "响应中没有找到图片数据",
\*   "no image data (list)" = "响应中没有找到图片数据(list)",
\*   "cannot parse" = "响应格式无法解析".
ClientError(message) == [type |-> "ClientError", message |-> message]
TimeoutError == [type |-> "TimeoutError", message |-> ""]
ValueError(message) == [type |-> "ValueError", message |-> message]
IndexError == [type |-> "IndexError", message |-> "list index out of range"]

\* `except (aiohttp.ClientError, asyncio.TimeoutError, ValueError) as e`
Caught(exc) == exc.type \in {"ClientError", "TimeoutError", "ValueError"}

\* A response body (HTTP 200, valid JSON object), as far as the parser looks:
\*   choices: "absent" (no key), "empty" ([]), or "one" (a first element);
\*   content: the value of choices[0].message.content (type "none" when the
\*            message or the content is missing or is no string and no list);
\*   stray:   a base64 data URI somewhere else in the serialized body.
\* A string content is a sequence of tokens: plain text, a markdown link
\* "[label](url)", a markdown image "![label](url)", a bare data URI.
\* The labels of the source are written "click" = 点击下载 and "pic" = 图片;
\* "other" and "cat" are any other label.
PlainText == [kind |-> "text", label |-> NoText, url |-> NoText]

MarkdownLink(label, url) == [kind |-> "link", label |-> label, url |-> url]

MarkdownImage(label, url) == [kind |-> "image", label |-> label, url |-> url]

DataUri == "data:image/png;base64,AAAA"

StrayUri == "data:image/png;base64,BBBB"

BareDataUri == [kind |-> "data", label |-> NoText, url |-> DataUri]

StrContent(tokens) == [type |-> "str", tokens |-> tokens, parts |-> <<>>]

ListContent(parts) == [type |-> "list", tokens |-> <<>>, parts |-> parts]

NoContent == [type |-> "none", tokens |-> <<>>, parts |-> <<>>]

ImagePart(url) == [type |-> "image_url", url |-> url]

TextPart == [type |-> "text", url |-> NoText]

Body(choices, content, stray) == [choices |-> choices, content |-> content, stray |-> stray]

\* r"\[点击下载\]\((.*?)\)": a link labelled 点击下载; the pattern also
\* matches inside an image of that label.
LinkPattern(t) == t.kind \in {"link", "image"} /\ t.label = "click"

\* An image pattern that accepts every label.
ImagePattern_mutant(t) == t.kind = "image"

\* r"!\[图片\]\((.*?)\)": an image labelled 图片.
ImagePattern(t) == t.kind = "image" /\ t.label = "pic"

\* r"data:image/[^;]+;base64,[A-Za-z0-9+/=]+": a data URI, bare or as the
\* target of a link or an image.
DataPattern(t) == t.url = DataUri

\* The pattern of a given name applied to one token.
Matches(pattern, t) ==
    CASE pattern = "link" -> LinkPattern(t)
      [] pattern = "image" -> ImagePattern(t)
      [] OTHER -> DataPattern(t)

\* re.search over a string content: the first token the pattern matches,
\* as [found, url] (url the text captured, which may be empty).
FirstToken(tokens, pattern) ==
    IF \E k \in 1..Len(tokens) : Matches(pattern, tokens[k])
    THEN LET k == CHOOSE k \in 1..Len(tokens) :
                    /\ Matches(pattern, tokens[k])
                    /\ \A j \in 1..(k - 1) : ~Matches(pattern, tokens[j])
         IN  [found |-> TRUE, url |-> tokens[k].url]
    ELSE [found |-> FALSE, url |-> NoText]

\* `re.search(link) or re.search(image)`
MarkdownSearch(tokens) ==
    IF FirstToken(tokens, "link").found THEN FirstToken(tokens, "link")
    ELSE FirstToken(tokens, "image")

\* A loop that takes the first image_url part whatever its url.
FirstImagePart_mutant(parts) ==
    IF \E k \in 1..Len(parts) : parts[k].type = "image_url"
    THEN parts[CHOOSE k \in 1..Len(parts) :
                  /\ parts[k].type = "image_url"
                  /\ \A j \in 1..(k - 1) : parts[j].type # "image_url"].url
    ELSE NoText

\* The first part of a list content that is an image_url with a non-empty url.
FirstImagePart(parts) ==
    IF \E k \in 1..Len(parts) : parts[k].type = "image_url" /\ parts[k].url # NoText
    THEN LET k == CHOOSE k \in 1..Len(parts) :
                    /\ parts[k].type = "image_url" /\ parts[k].url # NoText
                    /\ \A j \in 1..(k - 1) :
                          ~(parts[j].type = "image_url" /\ parts[j].url # NoText)
         IN  parts[k].url
    ELSE NoText

\* The part of the loop body after the response is read: what it returns
\* ([kind |-> "return", value]) or raises ([kind |-> "raise", exc]).
Return(value) == [kind |-> "return", value |-> value, exc |-> NoException]

Raise(exc) == [kind |-> "raise", value |-> NoText, exc |-> exc]

ParseResponse(data, model) ==
    IF data.choices = "empty" THEN Raise(IndexError)
    ELSE LET content == IF data.choices = "absent" THEN NoContent ELSE data.content
         IN  IF content.type = "str"
             THEN IF model # "nano-banana" /\ MarkdownSearch(content.tokens).found
                       THEN Return(MarkdownSearch(content.tokens).url)
                  ELSE IF FirstToken(content.tokens, "data").found
                       THEN Return(DataUri)
                  ELSE Raise(ValueError("no image data"))
             ELSE IF content.type = "list"
             THEN IF FirstImagePart(content.parts) # NoText
                       THEN Return(FirstImagePart(content.parts))
                  ELSE Raise(ValueError("no image data (list)"))
             ELSE IF data.stray # NoText THEN Return(data.stray)
             ELSE Raise(ValueError("cannot parse"))

\* What one pass through `async with session.post(...)` can give.
\* After the first ClientSession block has exited, the connector the
\* sessions share is closed (a session owns the connector it is given and
\* closes it on exit), and session.post fails before a response is read.
Failed(exc) == [kind |-> "failed", exc |-> exc, data |-> Body("absent", NoContent, NoText)]

Answered(data) == [kind |-> "answered", exc |-> NoException, data |-> data]

Bodies ==
    { Body("one", StrContent(<<PlainText, MarkdownLink("click", "http://h/x.png")>>), NoText),
      Body("one", StrContent(<<BareDataUri>>), NoText),
      Body("one", StrContent(<<PlainText>>), NoText),
      Body("one", ListContent(<<TextPart, ImagePart("http://h/y.png")>>), NoText),
      Body("one", ListContent(<<TextPart>>), NoText),
      Body("one", NoContent, NoText),
      Body("one", NoContent, StrayUri),
      Body("absent", NoContent, NoText),
      Body("empty", NoContent, NoText) }

\* ------------------------------------------------------------------ the parsing rules alone

MaxTokens == 2

MaxParts == 2

\* The tokens a string content is made of.
Tokens ==
    { PlainText, BareDataUri,
      MarkdownLink("click", "http://h/x.png"), MarkdownLink("other", "http://h/o.png"),
      MarkdownImage("pic", "http://h/i.png"), MarkdownImage("cat", "http://h/c.png"),
      MarkdownImage("pic", DataUri), MarkdownImage("click", "http://h/k.png"),
      MarkdownLink("click", NoText) }

Parts == {TextPart, ImagePart(NoText), ImagePart("http://h/y.png"), ImagePart("http://h/z.png")}

SeqsUpTo(S, n) == UNION {[1..k -> S] : k \in 0..n}

Contents ==
    {StrContent(t) : t \in SeqsUpTo(Tokens, MaxTokens)}
        \cup {ListContent(p) : p \in SeqsUpTo(Parts, MaxParts)}
        \cup {NoContent}

ResponseBodies ==
    {Body("one", c, stray) : c \in Contents, stray \in {NoText, StrayUri}}
        \cup {Body(choices, NoContent, stray) :
                  choices \in {"absent", "empty"}, stray \in {NoText, StrayUri}}

NotParsed == [kind |-> "none", value |-> NoText, exc |-> NoException]

\* Lines 100-140 of generate_image_async applied to one response.
parse_response ==
    /\ parse_pc = "call"
    /\ parse_result' = ParseResponse(response_data, parse_model)
    /\ parse_pc' = "done"
    /\ UNCHANGED <<response_data, parse_model>>

ParseIdle ==
    /\ response_data = Body("absent", NoContent, NoText)
    /\ parse_model = "sora_image"
    /\ parse_result = NotParsed
    /\ parse_pc = "idle"

AuxIdle == MatchIdle /\ HistoryIdle /\ ParseIdle

\* ------------------------------------------------------------------ the retry loop

TransportFailures ==
    { Failed(ClientError("connection refused")), Failed(TimeoutError) }

Outcomes(closed) ==
    IF closed
    THEN {Failed(TimeoutError), Failed(ClientError("Connector is closed."))}
    ELSE TransportFailures
            \cup {Failed(ValueError("HTTP 500")), Failed(ValueError("invalid JSON"))}
            \cup {Answered(b) : b \in Bodies}

Min(a, b) == IF a <= b THEN a ELSE b

\* A backoff whose exponent is off by one.
Delay_mutant(a) == Min(8000, 500 * 2 ^ a)

\* `delay = min(8, 0.5 * (2 ** (attempt - 1)))` seconds, in milliseconds.
Delay(a) == Min(8000, 500 * 2 ^ (a - 1))

\* `while attempt <= retry_count`
LoopContinues(a, retries) == a <= retries

\* A loop that gives up one attempt early.
RetriesExhausted_mutant(a, retries) == a >= retries

\* `attempt += 1; if attempt > retry_count: raise`, a being the new value.
RetriesExhausted(a, retries) == a > retries

\* A loop that reports the first failure.
Reraise_mutant(errors) == errors[1]

\* `raise` inside the except clause re-raises the exception being handled,
\* the last of those seen.
Reraise(errors) == errors[Len(errors)]

\* No call is being followed.
ApiIdle ==
    /\ retry_count = 0
    /\ model_type = "sora_image"
    /\ attempt = 0
    /\ api_pc = "idle"
    /\ api_posts = 0
    /\ api_sleeps = <<>>
    /\ api_errors = <<>>
    /\ api_exc = NoException
    /\ api_result = NoText
    /\ connector_closed = FALSE
    /\ api_key = "sk"

\* A check that lets every key pass.
KeyMissing_mutant(key) == FALSE

\* `if not api_key`
KeyMissing(key) == key = NoText

\* `raise ValueError("API密钥不能为空")`, here "empty api key": the call ends
\* before the connector is built and before the loop is entered.
generate_rejects_key ==
    /\ api_pc = "loop"
    /\ 1 \in Running
    /\ attempt = 0
    /\ api_posts = 0
    /\ KeyMissing(api_key)
    /\ api_pc' = "raised"
    /\ api_exc' = ValueError("empty api key")
    /\ UNCHANGED <<retry_count, model_type, attempt, api_posts, api_sleeps, api_errors,
                   api_result, connector_closed, api_key>>
    /\ UNCHANGED schedVars

\* The call is made by the worker at the head of async_tasks once it runs.
\* One pass through the body of `while attempt <= retry_count`.
generate_attempt(outcome) ==
    LET parsed == IF outcome.kind = "failed" THEN Raise(outcome.exc)
                  ELSE ParseResponse(outcome.data, model_type)
    IN  /\ api_pc = "loop"
        /\ 1 \in Running
        /\ ~KeyMissing(api_key)
        /\ LoopContinues(attempt, retry_count)
        /\ outcome \in Outcomes(connector_closed)
        /\ api_sleeps' = IF attempt > 0
                         THEN Append(api_sleeps, [before |-> attempt + 1, ms |-> Delay(attempt)])
                         ELSE api_sleeps
        /\ api_posts' = api_posts + 1
        /\ connector_closed' = TRUE
        /\ IF parsed.kind = "return"
           THEN /\ api_pc' = "returned"
                /\ api_result' = parsed.value
                /\ UNCHANGED <<attempt, api_errors, api_exc>>
           ELSE /\ api_errors' = Append(api_errors, parsed.exc)
                /\ IF Caught(parsed.exc)
                   THEN /\ attempt' = attempt + 1
                        /\ IF RetriesExhausted(attempt + 1, retry_count)
                           THEN api_pc' = "raised" /\ api_exc' = Reraise(api_errors')
                           ELSE UNCHANGED <<api_pc, api_exc>>
                   ELSE /\ api_pc' = "raised"
                        /\ api_exc' = parsed.exc
                        /\ UNCHANGED attempt
                /\ UNCHANGED api_result
        /\ UNCHANGED <<retry_count, model_type, api_key>>
        /\ UNCHANGED schedVars

\* The loop condition is false on entry (retry_count < 0): the function
\* falls off its end and returns None.
NoneResult == "None"

generate_falls_through ==
    /\ api_pc = "loop"
    /\ 1 \in Running
    /\ ~KeyMissing(api_key)
    /\ ~LoopContinues(attempt, retry_count)
    /\ api_pc' = "returned"
    /\ api_result' = NoneResult
    /\ UNCHANGED <<retry_count, model_type, attempt, api_posts, api_sleeps, api_errors,
                   api_exc, connector_closed, api_key>>
    /\ UNCHANGED schedVars

\* AsyncWorker.run after the call: finished is emitted with the value returned.
\* The signal is declared pyqtSignal(str, str, str): emit refuses None with a
\* TypeError, which `except Exception` turns into the error signal.
worker_emits_finished ==
    /\ api_pc = "returned"
    /\ IF api_result = NoneResult
       THEN run_error(1, "TypeError")
       ELSE run_finished(1, api_result)
    /\ api_pc' = "done"
    /\ UNCHANGED <<retry_count, model_type, attempt, api_posts, api_sleeps, api_errors,
                   api_exc, api_result, connector_closed, api_key>>

\* AsyncWorker.run after the call: `except Exception as e` emits error with
\* "请求失败: {e}".
worker_emits_error ==
    /\ api_pc = "raised"
    /\ run_error(1, api_exc.message)
    /\ api_pc' = "done"
    /\ UNCHANGED <<retry_count, model_type, attempt, api_posts, api_sleeps, api_errors,
                   api_exc, api_result, connector_closed, api_key>>

\* One task from its submission to the end of its generation, the call of
\* its worker followed attempt by attempt.
InitApi ==
    /\ InitTable({<<"p">>})
    /\ retry_count \in RetryCounts
    /\ model_type \in ModelTypes
    /\ attempt = 0
    /\ api_pc = "loop"
    /\ api_posts = 0
    /\ api_sleeps = <<>>
    /\ api_errors = <<>>
    /\ api_exc = NoException
    /\ api_result = NoText
    /\ connector_closed = FALSE
    /\ api_key = "sk"
    /\ AuxIdle

NextApi ==
    \/ dispatched = 0 /\ start_generation /\ UNCHANGED <<apiVars, auxVars>>
    \/ run_begin /\ UNCHANGED <<apiVars, auxVars>>
    \/ (\E closed \in BOOLEAN : \E outcome \in Outcomes(closed) : generate_attempt(outcome))
          /\ UNCHANGED auxVars
    \/ generate_falls_through /\ UNCHANGED auxVars
    \/ worker_emits_finished /\ UNCHANGED auxVars
    \/ worker_emits_error /\ UNCHANGED auxVars

SpecApi == InitApi /\ [][NextApi]_vars

\* The same call made with any api_key, the empty one included: the worker
\* is built with the key the window holds when _execute_async_worker runs.
KeysGiven == {NoText, "sk"}

InitKey ==
    /\ InitTable({<<"p">>})
    /\ retry_count \in RetryCounts
    /\ model_type \in ModelTypes
    /\ attempt = 0
    /\ api_pc = "loop"
    /\ api_posts = 0
    /\ api_sleeps = <<>>
    /\ api_errors = <<>>
    /\ api_exc = NoException
    /\ api_result = NoText
    /\ connector_closed = FALSE
    /\ api_key \in KeysGiven
    /\ AuxIdle

NextKey ==
    \/ dispatched = 0 /\ start_generation /\ UNCHANGED <<apiVars, auxVars>>
    \/ run_begin /\ UNCHANGED <<apiVars, auxVars>>
    \/ generate_rejects_key /\ UNCHANGED auxVars
    \/ (\E closed \in BOOLEAN : \E outcome \in Outcomes(closed) : generate_attempt(outcome))
          /\ UNCHANGED auxVars
    \/ generate_falls_through /\ UNCHANGED auxVars
    \/ worker_emits_finished /\ UNCHANGED auxVars
    \/ worker_emits_error /\ UNCHANGED auxVars

SpecKey == InitKey /\ [][NextKey]_vars


\* ------------------------------------------------------------------ specification

\* The texts a failed download reports, "save failed: " = "保存图片失败: ".
\* Every failure ends in the except clause of download_image_async: the
\* branch of a status other than 200 names QTimer, which the import of the
\* except clause makes a local of the function that is not bound yet.
DownloadErrors == {"save failed: timeout"}

\* The scheduler, with the outcome of every generate_image_async call left open.
Init ==
    /\ InitTable(ImportedTables)
    /\ ApiIdle
    /\ AuxIdle

Next ==
    \/ (\E n \in 1..MaxThreads : accept_settings(n)) /\ UNCHANGED <<apiVars, auxVars>>
    \/ (\E r \in 1..MaxRows : on_row_checkbox_changed(r)) /\ UNCHANGED <<apiVars, auxVars>>
    \/ start_generation /\ UNCHANGED <<apiVars, auxVars>>
    \/ start_regenerate_selected /\ UNCHANGED <<apiVars, auxVars>>
    \/ start_regenerate_all /\ UNCHANGED <<apiVars, auxVars>>
    \/ run_begin /\ UNCHANGED <<apiVars, auxVars>>
    \/ (\E i \in 1..MaxDispatch, u \in Urls : run_finished(i, u)) /\ UNCHANGED <<apiVars, auxVars>>
    \/ (\E i \in 1..MaxDispatch, m \in ErrorMessages : run_error(i, m)) /\ UNCHANGED <<apiVars, auxVars>>
    \/ (\E d \in 1..MaxDispatch : download_probe(d)) /\ UNCHANGED <<apiVars, auxVars>>
    \/ (\E d \in 1..MaxDispatch : download_written(d)) /\ UNCHANGED <<apiVars, auxVars>>
    \/ (\E d \in 1..MaxDispatch, m \in DownloadErrors : download_failed(d, m))
          /\ UNCHANGED <<apiVars, auxVars>>
    \/ (\E d \in 1..MaxDispatch : mark_download_failed(d)) /\ UNCHANGED <<apiVars, auxVars>>
    \/ refresh_timer_fires /\ UNCHANGED <<apiVars, auxVars>>
    \/ check_generation_completion /\ UNCHANGED <<apiVars, auxVars>>

Spec == Init /\ [][Next]_vars

\* The scheduler with the deletion of rows: submissions, the workers, the
\* downloads and the timers, and the two operations that drop rows.
NextDrop ==
    \/ (\E r \in 1..MaxRows : on_row_checkbox_changed(r)) /\ UNCHANGED <<apiVars, auxVars>>
    \/ start_generation /\ UNCHANGED <<apiVars, auxVars>>
    \/ delete_selected_prompts /\ UNCHANGED <<apiVars, auxVars>>
    \/ clear_prompts /\ UNCHANGED <<apiVars, auxVars>>
    \/ run_begin /\ UNCHANGED <<apiVars, auxVars>>
    \/ (\E i \in 1..MaxDispatch, u \in Urls : run_finished(i, u)) /\ UNCHANGED <<apiVars, auxVars>>
    \/ (\E i \in 1..MaxDispatch, m \in ErrorMessages : run_error(i, m)) /\ UNCHANGED <<apiVars, auxVars>>
    \/ (\E d \in 1..MaxDispatch : download_probe(d)) /\ UNCHANGED <<apiVars, auxVars>>
    \/ (\E d \in 1..MaxDispatch : download_written(d)) /\ UNCHANGED <<apiVars, auxVars>>
    \/ (\E d \in 1..MaxDispatch, m \in DownloadErrors : download_failed(d, m))
          /\ UNCHANGED <<apiVars, auxVars>>
    \/ (\E d \in 1..MaxDispatch : mark_download_failed(d)) /\ UNCHANGED <<apiVars, auxVars>>
    \/ refresh_timer_fires /\ UNCHANGED <<apiVars, auxVars>>
    \/ check_generation_completion /\ UNCHANGED <<apiVars, auxVars>>

SpecDrop == Init /\ [][NextDrop]_vars

\* The calls of save_history_record on an empty directory.
InitHistory ==
    /\ InitTable({<<"p">>})
    /\ thread_count = 1
    /\ ApiIdle
    /\ MatchIdle
    /\ HistoryIdle
    /\ ParseIdle

NextHistory ==
    \/ (\E prompt_data \in PromptData, config_data \in Configs :
           \E filename \in FilenameChoices(history_clock) :
              save_history_record(prompt_data, config_data, filename))
          /\ UNCHANGED <<schedVars, apiVars, matchVars, parseVars>>
    \/ clock_ticks /\ UNCHANGED <<schedVars, apiVars, matchVars, parseVars>>

SpecHistory == InitHistory /\ [][NextHistory]_vars

\* One call of extract_image_names on any text and any library.
InitMatch ==
    /\ match_text \in Texts
    /\ category_links \in SUBSET NamePool
    /\ ordered = <<>>
    /\ matched = <<>>
    /\ match_pc = "call"
    /\ InitTable({<<"p">>})
    /\ thread_count = 1
    /\ ApiIdle
    /\ HistoryIdle
    /\ ParseIdle

NextMatch == extract_image_names /\ UNCHANGED <<schedVars, apiVars, historyVars, parseVars>>

SpecMatch == InitMatch /\ [][NextMatch]_vars

\* The parsing rules on any response body and either model type.
InitParse ==
    /\ response_data \in ResponseBodies
    /\ parse_model \in ModelTypes
    /\ parse_result = NotParsed
    /\ parse_pc = "call"
    /\ InitTable({<<"p">>})
    /\ thread_count = 1
    /\ ApiIdle
    /\ MatchIdle
    /\ HistoryIdle

NextParse == parse_response /\ UNCHANGED <<schedVars, apiVars, matchVars, historyVars>>

SpecParse == InitParse /\ [][NextParse]_vars


\* ------------------------------------------------------------------ claims: the scheduler

StatusCount(table, statuses) ==
    Cardinality({r \in Rows(table) : table[r].status \in statuses})

Quiescent == async_tasks = <<>> /\ downloads = <<>>

\* C2: every submitted task reaches Succeeded or Failed, two tasks with the
\* same prompt included: once every worker and every download has ended,
\* every row a worker was created for is Succeeded or Failed.
C2_SubmittedReachTerminal ==
    Quiescent => \A r \in submitted : Terminal(prompt_table_data[r].status)

NewWorkers == SubSeq(async_tasks', Len(async_tasks) + 1, Len(async_tasks'))

\* C3: "generate only new" dispatches exactly the rows whose status is
\* Waiting; every other row is skipped, and the submission changes no
\* field of any row.
C3_OnlyWaitingDispatched ==
    [][start_generation =>
          /\ {NewWorkers[i].row : i \in 1..Len(NewWorkers)} =
                {r \in Rows(prompt_table_data) : prompt_table_data[r].status = "Waiting"}
          /\ prompt_table_data' = prompt_table_data]_vars

\* A submission has passed over a row that was not Waiting.
C3_Witness ==
    \E i \in 1..Len(async_tasks) :
        \E r \in async_tasks[i].skipped :
            prompt_table_data[r].status \in {"Generating", "Downloading", "Succeeded", "Failed"}

\* C4: whenever a submitted batch has no task left in a non-terminal status
\* the completion signal fires and the history is saved, whatever the entry
\* point: once nothing is running and no timer is pending, generation_finished
\* has been called since the submission and save_history_record with it.
C4_CompletionSignalled ==
    ( /\ submitted # {}
      /\ Quiescent
      /\ refresh_timers = 0
      /\ check_timers = 0
      /\ NoActiveTask(prompt_table_data) )
    => (finished_calls >= 1 /\ history_saves >= 1)

\* C5: the completion signal fires at most once for a submitted batch, and
\* never while a task is Waiting, Generating, Retrying or Downloading.
C5_OneShot ==
    [][finished_calls' > finished_calls =>
          /\ finished_calls = 0
          /\ NoActiveTask(prompt_table_data)]_vars

\* C6: when the generation of a task fails its permit is released and no
\* other task has its status changed.
C6_FailureIsolated ==
    [][\A i \in 1..Len(async_tasks) : \A message \in ErrorMessages :
          run_error(i, message) =>
              /\ semaphore'.value = semaphore.value + 1
              /\ \A r \in Rows(prompt_table_data) \ {async_tasks[i].row} :
                    prompt_table_data'[r] = prompt_table_data[r]]_vars

\* ------------------------------------------------------------------ claims: the retry loop

AllCaught(errors) == \A k \in 1..Len(errors) : Caught(errors[k])

CallRaised == api_pc \in {"raised", "done"} /\ api_exc # NoException

\* C7: for every retry_count in 0..5 a call makes at most retry_count + 1
\* requests (calls of session.post), and exactly retry_count + 1 when it ends
\* with every attempt failed by a retryable error.
C7_AttemptsBounded ==
    retry_count \in 0..RetrySpinMax =>
        /\ api_posts <= retry_count + 1
        /\ (CallRaised /\ AllCaught(api_errors)) => api_posts = retry_count + 1

C7_Witness ==
    /\ retry_count = 2
    /\ CallRaised
    /\ AllCaught(api_errors)
    /\ api_posts = 3

\* The delays the specification lists, in milliseconds, by the number of the
\* attempt they precede (attempts counted from 1): 0.5, 1, 2, 4, 8, 8, ...
ListedDelay(i) ==
    IF i = 2 THEN 500
    ELSE IF i = 3 THEN 1000
    ELSE IF i = 4 THEN 2000
    ELSE IF i = 5 THEN 4000
    ELSE 8000

C9_EveryFailureRetried ==
    (retry_count >= 0 /\ CallRaised) => api_posts = retry_count + 1

\* C10: when all retry_count + 1 attempts have failed, the exception raised
\* is that of the final attempt, and once the worker has reported it the
\* task is Failed, its error text carries the message of that exception and
\* its locator is empty.
C10_LastErrorSurfaces ==
    (CallRaised /\ Len(api_errors) = retry_count + 1) =>
        /\ api_exc = api_errors[Len(api_errors)]
        /\ api_pc = "done" =>
              /\ prompt_table_data[1].status = "Failed"
              /\ prompt_table_data[1].error_msg =
                    [tag |-> "request", text |-> api_errors[Len(api_errors)].message]
              /\ prompt_table_data[1].image_url = NoText

C10_Witness ==
    /\ api_pc = "done"
    /\ retry_count = 2
    /\ Len(api_errors) = 3
    /\ api_errors[1] # api_errors[3]
    /\ prompt_table_data[1].status = "Failed"
    /\ prompt_table_data[1].error_msg.text = api_errors[3].message


\* ------------------------------------------------------------------ claims: extract_image_names

Cat == <<"m">>

SmallCat == <<"x", "m">>

SmallSpaceCat == <<"x", " ", "m">>

\* C11 as stated: with the names 猫 and 小猫 the text 一只小猫 gives exactly
\* the list [小猫].
C11_LongestNameMatched ==
    ( /\ match_pc = "done"
      /\ category_links = {Cat, SmallCat}
      /\ match_text = <<"y", "z", "x", "m">> )
    => ordered = <<SmallCat>>

\* C11 amended: a name is matched only where no letter, digit or ideograph
\* stands right before or right after it.  With the names 猫 and 小猫 the
\* text 一只小猫 gives the empty list (只 stands before 小猫) and the text
\* "只 小猫" gives [小猫]; with the names 猫 and "小 猫" the text "小 猫"
\* gives ["小 猫"] only, the 猫 inside the longer name not being counted.
C11_BoundaryThenLongest ==
    match_pc = "done" =>
        /\ (category_links = {Cat, SmallCat} /\ match_text = <<"y", "z", "x", "m">>)
              => ordered = <<>>
        /\ (category_links = {Cat, SmallCat} /\ match_text = <<"z", " ", "x", "m">>)
              => ordered = <<SmallCat>>
        /\ (category_links = {Cat, SmallSpaceCat} /\ match_text = <<"x", " ", "m">>)
              => ordered = <<SmallSpaceCat>>

C11_Witness ==
    /\ match_pc = "done"
    /\ category_links = {Cat, SmallCat}
    /\ match_text = <<"z", " ", "x", "m">>
    /\ ordered = <<SmallCat>>

\* Where the first recorded match of a name starts.
FirstStart(n) ==
    LET starts == {matched[k].start : k \in {j \in 1..Len(matched) : matched[j].name = n}}
    IN  CHOOSE a \in starts : \A b \in starts : a <= b

\* C12: the list returned holds names of the candidate set only, no name
\* twice, in the order in which their first accepted occurrences stand in
\* the text.
C12_FirstOccurrenceOrder ==
    match_pc = "done" =>
        /\ \A k \in 1..Len(ordered) : ordered[k] \in category_links
        /\ \A a, b \in 1..Len(ordered) : a < b => ordered[a] # ordered[b]
        /\ \A a, b \in 1..Len(ordered) :
              a < b => FirstStart(ordered[a]) < FirstStart(ordered[b])

\* ------------------------------------------------------------------ claims: file names

\* The name is the first of number.png, number-2.png, number-3.png, ...
\* that is not among files (counter 1 is the bare name).
FirstFree(name, number, files) ==
    /\ name.number = number
    /\ name.counter >= 1
    /\ name \notin files
    /\ \A j \in 1..(name.counter - 1) : [number |-> number, counter |-> j] \in files

\* C13: the name a download chooses is the first of k.png, k-2.png,
\* k-3.png, ... absent from the directory when it probes, and the artifact
\* is stored under the name chosen.
C13_FirstFreeName ==
    [][\A d \in 1..Len(downloads) :
          /\ download_probe(d) =>
                FirstFree(downloads'[d].filename, downloads[d].number, saved_files)
          /\ download_written(d) =>
                saved_files' = saved_files \cup {downloads[d].filename}]_vars

\* Three results of key 1 have been stored one after the other: 1.png,
\* 1-2.png, 1-3.png.
C13_Witness ==
    /\ [number |-> 1, counter |-> 1] \in saved_files
    /\ [number |-> 1, counter |-> 2] \in saved_files
    /\ [number |-> 1, counter |-> 3] \in saved_files

\* ------------------------------------------------------------------ claims: history

\* The files whose record has the identity of the configuration and the
\* prompt texts given.
SameBatch(dir, config, prompts) ==
    {f \in DOMAIN dir : /\ dir[f].config = config
                        /\ Len(dir[f].prompts) = Len(prompts)
                        /\ \A k \in 1..Len(prompts) : dir[f].prompts[k].prompt = prompts[k].prompt}

SaveStep == history_calls' = history_calls + 1

\* C14: a save of a configuration and an ordered list of prompt texts that
\* the directory already holds a record of, whatever name is given, adds no
\* record: the directory holds one record of that batch, the call returns
\* its path, and the record has the timestamp and the counts of this save.
C14_SaveIdempotent ==
    [][(SaveStep /\ SameBatch(history_dir, history_call'.config, history_call'.prompt_data) # {})
          => /\ Cardinality(SameBatch(history_dir', history_call'.config,
                                      history_call'.prompt_data)) = 1
             /\ history_call'.returned \in
                   SameBatch(history_dir, history_call'.config, history_call'.prompt_data)
             /\ history_dir'[history_call'.returned].created_time = history_clock
             /\ history_dir'[history_call'.returned].success_count =
                   CountStatus(history_call'.prompt_data, "Succeeded")
             /\ history_dir'[history_call'.returned].failed_count =
                   CountStatus(history_call'.prompt_data, "Failed")]_vars

\* The two saves differ in an outcome field of a task and in nothing else
\* of what the identity reads.
OutcomeOnlyResave ==
    /\ SaveStep
    /\ history_call.config = history_call'.config
    /\ Len(history_call.prompt_data) = Len(history_call'.prompt_data)
    /\ \A k \in 1..Len(history_call.prompt_data) :
          history_call.prompt_data[k].prompt = history_call'.prompt_data[k].prompt
    /\ history_call.prompt_data # history_call'.prompt_data

\* C15: a save that differs from the save before it only in the outcome
\* fields of its tasks addresses the record of that save, which then holds
\* the task list and the counts of the second save; a save whose
\* configuration or prompt texts, in order, are those of no stored record
\* has another identity: it updates no record and is written as a new one.
C15_IdentityIgnoresOutcome ==
    [][/\ OutcomeOnlyResave =>
             /\ history_call'.returned = history_call.returned
             /\ history_dir'[history_call'.returned].prompts = history_call'.prompt_data
             /\ history_dir'[history_call'.returned].success_count =
                   CountStatus(history_call'.prompt_data, "Succeeded")
             /\ history_dir'[history_call'.returned].failed_count =
                   CountStatus(history_call'.prompt_data, "Failed")
       /\ (SaveStep /\ SameBatch(history_dir, history_call'.config,
                                 history_call'.prompt_data) = {})
          => /\ history_call'.returned =
                   (IF history_call'.filename.given
                    THEN FileName(history_call'.filename.prefix, history_call'.filename.stem)
                    ELSE FileName("sora_history_", history_clock))
             /\ history_dir'[history_call'.returned].prompts = history_call'.prompt_data
             /\ history_dir'[history_call'.returned].config = history_call'.config]_vars

\* ------------------------------------------------------------------ claims: response parsing

StringResponse ==
    /\ parse_pc = "done"
    /\ response_data.choices = "one"
    /\ response_data.content.type = "str"

StringTokens ==
    {response_data.content.tokens[k] : k \in 1..Len(response_data.content.tokens)}

\* What the data-URI rule alone gives for the string content.
DataRuleOnly ==
    IF \E k \in 1..Len(response_data.content.tokens) :
          response_data.content.tokens[k].url = DataUri
    THEN parse_result = Return(DataUri)
    ELSE parse_result.kind = "raise" /\ parse_result.exc.type = "ValueError"

DownloadLink(t) == t.kind = "link" /\ t.label = "click"

AnyMarkdown(t) == DownloadLink(t) \/ t.kind = "image"

ListedMarkdown(t) ==
    \/ t.label = "click" /\ t.kind \in {"link", "image"}
    \/ t.label = "pic" /\ t.kind = "image"

\* The urls of the markdown of either reading in the string content.
CapturedAny == {t.url : t \in {u \in StringTokens : AnyMarkdown(u)}}

CapturedListed == {t.url : t \in {u \in StringTokens : ListedMarkdown(u)}}

\* C16 as stated: for a string content and the default model a link labelled
\* 点击下载 or an image of any alt text gives its captured url, also when the
\* string holds a data URI; for nano-banana only the data-URI rule applies.
C16_AnyAltText ==
    StringResponse =>
        IF parse_model # "nano-banana"
        THEN CapturedAny # {} =>
                parse_result.kind = "return" /\ parse_result.value \in CapturedAny
        ELSE DataRuleOnly

\* C16 amended: for a string content and the default model the markdown rule
\* takes a link text labelled 点击下载 or an image labelled 图片 and gives its
\* captured url, also when the string holds a data URI; an image of another
\* alt text is not matched, and a string without such markdown is left to the
\* data-URI rule; for nano-banana only the data-URI rule applies.
C16_ListedAltText ==
    StringResponse =>
        IF parse_model # "nano-banana" /\ CapturedListed # {}
        THEN parse_result.kind = "return" /\ parse_result.value \in CapturedListed
        ELSE DataRuleOnly

\* A download link after a data URI in the same string: the link is returned.
C16_Witness ==
    /\ StringResponse
    /\ parse_model = "sora_image"
    /\ response_data.content.tokens = <<BareDataUri, MarkdownLink("click", "http://h/x.png")>>
    /\ parse_result = Return("http://h/x.png")


ListResponse ==
    /\ parse_pc = "done"
    /\ response_data.choices = "one"
    /\ response_data.content.type = "list"

UsableImage(part) == part.type = "image_url" /\ part.url # NoText

C17_WitnessDefault ==
    /\ ListResponse
    /\ parse_model = "sora_image"
    /\ response_data.content.parts = <<ImagePart("http://h/y.png"), ImagePart("http://h/z.png")>>
    /\ parse_result = Return("http://h/y.png")


\* The four rules in their order, each as [found, url]:
\* markdown in a string (default model type only), data URI in a string,
\* image part of a list, data URI anywhere in the serialized body.
RuleMarkdown ==
    IF response_data.content.type = "str" /\ parse_model # "nano-banana"
    THEN MarkdownSearch(response_data.content.tokens)
    ELSE [found |-> FALSE, url |-> NoText]

RuleDataUri ==
    IF response_data.content.type = "str"
    THEN FirstToken(response_data.content.tokens, "data")
    ELSE [found |-> FALSE, url |-> NoText]

RuleImagePart ==
    [found |-> response_data.content.type = "list"
                  /\ \E k \in 1..Len(response_data.content.parts) :
                        UsableImage(response_data.content.parts[k]),
     url |-> FirstImagePart(response_data.content.parts)]

RuleFallback ==
    IF RuleDataUri.found THEN RuleDataUri
    ELSE [found |-> response_data.stray # NoText, url |-> response_data.stray]

\* C18: the first of the four rules that matches decides the result, and a
\* parse error is raised only when none matches; so a string or a list in
\* which the first three rules find nothing, in a body with a data URI
\* elsewhere, gives that data URI.
C18_FallbackAfterEveryRule ==
    parse_pc = "done" /\ response_data.choices = "one" =>
        IF RuleMarkdown.found THEN parse_result = Return(RuleMarkdown.url)
        ELSE IF RuleDataUri.found THEN parse_result = Return(RuleDataUri.url)
        ELSE IF RuleImagePart.found THEN parse_result = Return(RuleImagePart.url)
        ELSE IF RuleFallback.found THEN parse_result = Return(RuleFallback.url)
        ELSE parse_result.kind = "raise" /\ parse_result.exc.type = "ValueError"


\* ------------------------------------------------------------------ claims: downloads

\* The step writes the artifact of a download made for the prompt of row r
\* and records its file name on the row.
SavedNow(r) ==
    \E d \in 1..Len(downloads) :
        /\ download_written(d)
        /\ downloads[d].original_prompt = prompt_table_data[r].prompt
        /\ prompt_table_data'[r].actual_filename = downloads[d].filename
        /\ downloads[d].filename \in saved_files'

\* C19: a row whose status is Succeeded has a file name and no error text,
\* and a row becomes Succeeded only from Downloading, in the step that
\* writes its artifact.
C19_SucceededMeansSaved ==
    [][\A r \in Rows(prompt_table_data) :
          prompt_table_data'[r].status = "Succeeded" =>
              /\ prompt_table_data'[r].actual_filename # NoFile
              /\ prompt_table_data'[r].error_msg = NoError
              /\ prompt_table_data[r].status # "Succeeded" =>
                    prompt_table_data[r].status = "Downloading" /\ SavedNow(r)]_vars


\* The row a download reports on.
RowOf(d) == FirstMatch(prompt_table_data, downloads[d].original_prompt)

\* C20: a download is made once for each success of a generation and is
\* never made again: its failure changes no row and starts nothing, and the
\* report of the failure moves the row, when it is Downloading, to Failed
\* with the download error, starting no download and no worker.
C20_DownloadNotRetried ==
    [][/\ Len(downloads') > Len(downloads) =>
             /\ Len(downloads') = Len(downloads) + 1
             /\ \E i \in 1..Len(async_tasks), u \in Urls : run_finished(i, u)
       /\ \A d \in 1..Len(downloads) :
             /\ (\E m \in DownloadErrors : download_failed(d, m)) =>
                   /\ prompt_table_data' = prompt_table_data
                   /\ async_tasks' = async_tasks
                   /\ Len(downloads') = Len(downloads)
                   /\ downloads'[d].pc = "failed"
             /\ mark_download_failed(d) /\ RowOf(d) # 0
                  /\ prompt_table_data[RowOf(d)].status = "Downloading" =>
                   /\ prompt_table_data'[RowOf(d)].status = "Failed"
                   /\ prompt_table_data'[RowOf(d)].error_msg.tag = "download"
                   /\ async_tasks' = async_tasks
                   /\ downloads' = RemoveAt(downloads, d)
                   /\ dispatched' = dispatched]_vars

\* The only download of the run has failed: its row went from Downloading
\* to Failed and no download and no worker is left.
C20_Witness ==
    /\ \E r \in Rows(prompt_table_data) :
          /\ prompt_table_data[r].status = "Failed"
          /\ prompt_table_data[r].error_msg # NoError
          /\ prompt_table_data[r].error_msg.tag = "download"
    /\ downloads = <<>>
    /\ async_tasks = <<>>
    /\ dispatched = 1


\* ------------------------------------------------------------------ claims: the task state machine

\* The row a worker reports on.
RowOfWorker(i) == FirstMatch(prompt_table_data, async_tasks[i].original_prompt)

\* C21: the report of a failed download leaves its row Failed with an error
\* text of the "download failed" prefix, the error of a generation leaves
\* its row Failed with a text without that prefix, and every Failed row
\* carries the text of one of the two classes.
C21_FailureClassesApart ==
    [][/\ \A d \in 1..Len(downloads) :
             mark_download_failed(d) /\ RowOf(d) # 0 =>
                /\ prompt_table_data'[RowOf(d)].status = "Failed"
                /\ prompt_table_data'[RowOf(d)].error_msg.tag = "download"
       /\ \A i \in 1..Len(async_tasks) :
             (\E m \in ErrorMessages : run_error(i, m)) /\ RowOfWorker(i) # 0 =>
                /\ prompt_table_data'[RowOfWorker(i)].status = "Failed"
                /\ prompt_table_data'[RowOfWorker(i)].error_msg.tag = "request"
       /\ \A r \in Rows(prompt_table_data') :
             prompt_table_data'[r].status = "Failed" =>
                prompt_table_data'[r].error_msg.tag \in {"request", "download"}]_vars

\* One row has failed in its generation and another in its download.
C21_Witness ==
    \E r, q \in Rows(prompt_table_data) :
        /\ prompt_table_data[r].status = "Failed"
        /\ prompt_table_data[r].error_msg.tag = "request"
        /\ prompt_table_data[q].status = "Failed"
        /\ prompt_table_data[q].error_msg.tag = "download"


\* The fields of a row that the callbacks write.
Outcome(row) == <<row.status, row.image_url, row.actual_filename, row.error_msg>>

\* The step is a reset asked for by the user.
ExplicitReset == start_regenerate_selected \/ start_regenerate_all

\* C22: the status, image url, file name and error text of a row that is
\* Succeeded or Failed change only in a reset asked for by the user.
C22_TerminalImmutable ==
    [][\A r \in Rows(prompt_table_data) :
          /\ prompt_table_data[r].status \in {"Succeeded", "Failed"}
          /\ Outcome(prompt_table_data'[r]) # Outcome(prompt_table_data[r])
          => ExplicitReset]_vars


\* The transitions of the state machine, the reset apart.  Retrying is no
\* status of the model: no caller of handle_progress passes a retry text.
Transitions ==
    { <<"Waiting", "Generating">>, <<"Generating", "Downloading">>,
      <<"Generating", "Failed">>, <<"Downloading", "Succeeded">>,
      <<"Downloading", "Failed">> }

\* C23: every change of the status of a row is a transition of the state
\* machine, or the reset of a Succeeded or Failed row to Waiting in a reset
\* asked for by the user.
C23_OnlyListedTransitions ==
    [][\A r \in Rows(prompt_table_data) :
          prompt_table_data'[r].status # prompt_table_data[r].status =>
              \/ <<prompt_table_data[r].status, prompt_table_data'[r].status>> \in Transitions
              \/ /\ prompt_table_data[r].status \in {"Succeeded", "Failed"}
                 /\ prompt_table_data'[r].status = "Waiting"
                 /\ ExplicitReset]_vars


\* A generation (queued or running) or a download is in flight for row r.
InFlight(r) ==
    \/ \E i \in 1..Len(async_tasks) : async_tasks[i].row = r
    \/ \E d \in 1..Len(downloads) :
          /\ downloads[d].original_prompt = prompt_table_data[r].prompt
          /\ FirstMatch(prompt_table_data, downloads[d].original_prompt) = r

\* C24: no submission and no regeneration creates a worker for a row for
\* which a generation or a download is still in flight.
C24_OneStageInFlight ==
    [][\A k \in 1..Len(NewWorkers) : ~InFlight(NewWorkers[k].row)]_vars


\* C25: a worker whose row was deleted or cleared while the worker was
\* queued behind the gate never enters the gate (no request is sent for it)
\* and no callback of it changes a row of the table.
C25_DroppedNeverDispatched ==
    [][\A i \in 1..Len(async_tasks) :
          async_tasks[i].row = 0 /\ async_tasks[i].pc = "queued" =>
              /\ ~(run_begin /\ FirstQueued = i)
              /\ Len(async_tasks') >= Len(async_tasks)
                    => prompt_table_data' = prompt_table_data
                          \/ delete_selected_prompts \/ clear_prompts]_vars


\* ------------------------------------------------------------------ claims: retries seen from the task

\* A status text that reports a retry: any text other than the five
\* statuses the program writes.
IsRetrying(status) ==
    status \notin {"Waiting", "Generating", "Downloading", "Succeeded", "Failed"}

\* An attempt has failed with an error the loop catches and another attempt
\* is to follow.
RetryScheduled == attempt' = attempt + 1 /\ api_pc' = "loop"

\* C26: when an attempt fails and another is to follow, the status of the
\* task changes from Generating to a Retrying status.
C26_RetryingObservable ==
    [][RetryScheduled =>
          IsRetrying(prompt_table_data'[RowOfWorker(1)].status)]_vars


\* C27: when the loop is about to make a second or later attempt, nothing
\* left by the failed attempts rules out an answer: among the outcomes the
\* attempt can have is a response, so that a response with image data is
\* returned as the locator.
C27_LaterAttemptCanSucceed ==
    api_pc = "loop" /\ attempt >= 1 /\ LoopContinues(attempt, retry_count) =>
        \E outcome \in Outcomes(connector_closed) :
            /\ outcome.kind # "failed"
            /\ ParseResponse(outcome.data, model_type).kind = "return"


\* C28: a call made with an empty api_key sends no request and sleeps for
\* no backoff, whatever retry_count is, and ends by raising the error of
\* the missing key.
C28_MissingKeyFailsAtOnce ==
    api_key = NoText =>
        /\ api_posts = 0
        /\ api_sleeps = <<>>
        /\ attempt = 0
        /\ api_pc # "returned"
        /\ api_pc \in {"raised", "done"} => api_exc = ValueError("empty api key")

\* The call with the empty key and the largest retry_count has raised.
C28_Witness ==
    /\ api_key = NoText
    /\ retry_count = MaxRetry
    /\ api_pc = "raised"
    /\ api_exc = ValueError("empty api key")
    /\ api_posts = 0


\* ------------------------------------------------------------------ claims: accepted occurrences

\* The characters before and after every accepted occurrence, when there
\* are such, are outside the class.
NeighboursOutside(class) ==
    \A k \in 1..Len(matched) :
        LET text == Normalize(match_text)
            s == matched[k].start
            e == s + Len(matched[k].name) - 1
        IN  /\ s > 1 => text[s - 1] \notin class
            /\ e < Len(text) => text[e + 1] \notin class

\* C29 as stated: no accepted occurrence has an ASCII alphanumeric or an
\* ideographic character right before or right after it.
C29_NoIdeographicNeighbour ==
    match_pc = "done" => NeighboursOutside(WordChars \cup OtherIdeographs)

\* C29 amended: no accepted occurrence has a character of [A-Za-z0-9] or of
\* the range 一-龥 (U+4E00 to U+9FA5) right before or right after it; an
\* ideograph outside that range counts as a boundary.
C29_NoClassNeighbour ==
    match_pc = "done" => NeighboursOutside(WordChars)

\* Of two occurrences of 猫 the one after 小 is passed over and the one
\* between an ideograph outside the range and a space is accepted.
C29_Witness ==
    /\ match_pc = "done"
    /\ match_text = <<"x", "m", "o", "m">>
    /\ category_links = {Cat}
    /\ matched = <<[name |-> Cat, start |-> 4]>>

Span(entry) == entry.start..(entry.start + Len(entry.name) - 1)

\* C30: the spans of the accepted occurrences are pairwise disjoint, and
\* the occurrences are accepted in the order of descending name length, so
\* where two occurrences overlap the one of the longer name is kept.
C30_SpansDisjoint ==
    match_pc = "done" =>
        \A i, j \in 1..Len(matched) :
            i < j =>
                /\ Span(matched[i]) \cap Span(matched[j]) = {}
                /\ Len(matched[i].name) >= Len(matched[j].name)

\* 猫 stands inside an occurrence of "小 猫" with a space before it: the
\* longer name is accepted and the occurrence of 猫 is passed over.
C30_Witness ==
    /\ match_pc = "done"
    /\ match_text = <<"x", " ", "m">>
    /\ category_links = {Cat, SmallSpaceCat}
    /\ MatchesAt(Normalize(match_text), Cat, 3)
    /\ matched = <<[name |-> SmallSpaceCat, start |-> 1]>>


\* ------------------------------------------------------------------ claims: stored records

TasksOf(record, status) ==
    {k \in 1..Len(record.prompts) : record.prompts[k].status = status}

\* C31: in every stored record total_prompts is the number of tasks of the
\* record, success_count the number of its Succeeded tasks and failed_count
\* the number of its Failed tasks, so the two counts together do not exceed
\* the total; after a new file is written and after a record is updated in
\* place.
C31_CountsMatchTasks ==
    \A f \in DOMAIN history_dir :
        /\ history_dir[f].total_prompts = Len(history_dir[f].prompts)
        /\ history_dir[f].success_count = Cardinality(TasksOf(history_dir[f], "Succeeded"))
        /\ history_dir[f].failed_count = Cardinality(TasksOf(history_dir[f], "Failed"))
        /\ history_dir[f].success_count + history_dir[f].failed_count
              <= history_dir[f].total_prompts

\* The record written at time 1 under the timestamp name was updated in
\* place at time 2, and one of its two tasks is neither Succeeded nor Failed.
C31_Witness ==
    /\ history_calls = 2
    /\ DOMAIN history_dir = {FileName("sora_history_", 1)}
    /\ history_call.returned = FileName("sora_history_", 1)
    /\ history_dir[FileName("sora_history_", 1)].created_time = 2
    /\ history_dir[FileName("sora_history_", 1)].total_prompts = 2
    /\ history_dir[FileName("sora_history_", 1)].success_count = 1
    /\ history_dir[FileName("sora_history_", 1)].failed_count = 0


\* ------------------------------------------------------------------ claims: file names of downloads

\* The download has chosen its file name and has not written the file yet.
Probed(d) == downloads[d].pc = "fetching"

\* C32: two downloads in flight at the same time never hold the same file
\* name, and a download never writes a file that is already stored.
C32_NoSharedFilename ==
    [][/\ \A d, e \in 1..Len(downloads) :
             d # e /\ Probed(d) /\ Probed(e) =>
                 downloads[d].filename # downloads[e].filename
       /\ \A d \in 1..Len(downloads) :
             download_written(d) => downloads[d].filename \notin saved_files]_vars


\* ------------------------------------------------------------------ claims: the join of callbacks to rows

\* The step is the success or the error callback of worker i.
Reports(i) ==
    \/ \E u \in Urls : run_finished(i, u)
    \/ \E m \in ErrorMessages : run_error(i, m)

\* C33: the success and the error callback of a worker change no row but
\* the row the worker was created for, also when two rows carry the same
\* prompt text.
C33_OwnTaskUpdated ==
    [][\A i \in 1..Len(async_tasks) :
          Reports(i) =>
              \A r \in Rows(prompt_table_data) \ {async_tasks[i].row} :
                  prompt_table_data'[r] = prompt_table_data[r]]_vars


\* ------------------------------------------------------------------ claims: the gate

\* The step submits a batch while no worker of an earlier batch is left.
BatchSubmitted ==
    /\ async_tasks = <<>>
    /\ Len(async_tasks') > 0

\* C34: a batch submitted while no worker is left runs under a gate whose
\* limit, and whose number of free permits, is the limit configured at the
\* submission.
C34_BatchUnderConfiguredLimit ==
    [][BatchSubmitted =>
          /\ semaphore'.limit = max_concurrent_tasks'
          /\ semaphore'.value = max_concurrent_tasks']_vars


\* The step marks a row Generating that was not.
ReportedGenerating ==
    \E r \in Rows(prompt_table_data) :
        /\ r \in Rows(prompt_table_data')
        /\ prompt_table_data[r].status # "Generating"
        /\ prompt_table_data'[r].status = "Generating"

\* C35: the permits held by the workers inside the gate and the free permits
\* add up to the limit the gate was created with, and the free permits are
\* never negative and never more than that limit; a worker enters, and a row
\* is reported Generating, only in a step that takes a free permit, and every
\* worker that leaves, by success or by failure, gives one permit back.
C35_PermitsExact ==
    [][/\ semaphore'.created =>
             /\ Cardinality(Running') + semaphore'.value = semaphore'.limit
             /\ semaphore'.value \in 0..semaphore'.limit
       /\ Cardinality(Running') > Cardinality(Running) \/ ReportedGenerating =>
             /\ semaphore.value > 0
             /\ semaphore'.value = semaphore.value - 1
       /\ \A i \in Running :
             Reports(i) => semaphore'.value = semaphore.value + 1]_vars

\* Both workers of a batch of two have left the gate of one permit, one by
\* success and one by failure, and the permit is free again.
C35_Witness ==
    /\ semaphore.created
    /\ semaphore.limit = 1
    /\ semaphore.value = 1
    /\ async_tasks = <<>>
    /\ dispatched = 2
    /\ \E r \in Rows(prompt_table_data) :
          /\ prompt_table_data[r].status = "Failed"
          /\ prompt_table_data[r].error_msg.tag = "request"
    /\ \E r \in Rows(prompt_table_data) :
          prompt_table_data[r].status \in {"Downloading", "Succeeded"}


\* ------------------------------------------------------------------ claims: the result of a call

\* C36: a call that returns has sent at least one request and returns a
\* locator that is neither absent nor empty, whatever retry_count it was
\* given.
C36_ReturnsLocator ==
    api_pc = "returned" =>
        /\ api_posts >= 1
        /\ api_result # NoneResult
        /\ api_result # NoText


\* ------------------------------------------------------------------ claims: records of other batches

\* C37: a save of a batch that no record of the directory has the identity
\* of writes a file that did not exist and leaves every record of the
\* directory as it was, whatever name it is given and whatever the clock
\* shows.
C37_OtherRecordsKept ==
    [][(SaveStep /\ SameBatch(history_dir, history_call'.config, history_call'.prompt_data) = {})
          => /\ history_call'.returned \notin DOMAIN history_dir
             /\ \A f \in DOMAIN history_dir :
                   /\ f \in DOMAIN history_dir'
                   /\ history_dir'[f] = history_dir[f]]_vars


\* ------------------------------------------------------------------ claims: determinism of the match

\* C38: the list returned is a function of the text and the set of names:
\* every iteration order of the set gives the list that was returned.
C38_OrderIndependent ==
    match_pc = "done" =>
        \A names \in SortedByLength(category_links) :
            Dedup(NamesOf(MatchedOf(match_text, names))) = ordered


====
